---- MODULE Spec2Model ----
(***************************************************************************)
(* MindSpark: the live voice session of components/LiveTrivia              *)
(* (src/unnamed/part_001, lines 227-486).                                  *)
(*                                                                         *)
(* The mounted LiveTrivia component is modelled: its mount effect          *)
(* (initSession), the callbacks it hands to ai.live.connect (onopen,       *)
(* onmessage, onclose, onerror), the capture callback onaudioprocess, the  *)
(* completion callback of every scheduled source, the mute button and the  *)
(* effect's cleanup.  Time is the output AudioContext's currentTime, in    *)
(* whole ticks.                                                            *)
(*                                                                         *)
(* decodeAudioData (services/audioUtils) is awaited by onmessage; between  *)
(* the call and its result other callbacks may run and the clock may move, *)
(* so onmessage is two actions, OnMessageBegin and OnMessageResume.        *)
(*                                                                         *)
(* Spec runs every action together; SpecPlayback runs the playback side    *)
(* alone with more inbound messages; SpecRestart runs the session's life   *)
(* cycle over several mounts of the component (App.tsx, lines 31-70).      *)
(* SpecDrain runs playback, remote close and exit under weak fairness of   *)
(* what the platform does on its own (clock, decode, ended events).        *)
(*                                                                         *)
(* The turn-based quiz (src/components/VisualTrivia.tsx) is modelled next  *)
(* to it: SpecQuiz runs its games with their audio (stopCurrentAudio,      *)
(* playBuffer, playAudio), SpecLeaderboard games played to the end and     *)
(* saved to the leaderboard.                                               *)
(***************************************************************************)
EXTENDS Integers, Sequences, FiniteSets

\* ------------------------------------------------------------------ bounds
\* Number of inbound server messages considered.
MaxMsgs == 3
\* Last value of the playback clock considered.
MaxTime == 3
\* Number of inbound server messages considered when every part of the session
\* runs together (specification Spec).
MaxSessionMsgs == 1
\* Number of capture frames considered.
MaxFrames == 2
\* Number of times the conversation is started from the lobby.
MaxMounts == 2
\* Number of games of the quiz started from the lobby.
MaxGames == 2

Ids == 1..MaxMsgs

\* Number of questions of a quiz (data.questions.length).
MaxQuestions == 2
\* Ids of the audio sources a quiz can ask for: one per question read out,
\* one per answer, and one at the end of the game.
QIds == 1..(2 * MaxQuestions + 1)

\* Durations (in ticks) a decoded chunk may have: audioBuffer.duration.
Durations == {1, 2}

VARIABLES
  mounted,            \* the component is mounted (exit = unmount)
  initPc,             \* position of initSession: "getUserMedia" | "running" | "failed"
  connected,          \* useState connected
  error,              \* useState error (TRUE: a message is set)
  micActive,          \* useState micActive
  micActiveRef,       \* micActiveRef.current
  stream,             \* microphone MediaStream: "none" | "live" | "stopped"
  micStops,           \* how many times the stream's tracks were stopped
  processor,          \* ScriptProcessor: "none" | "connected" | "disconnected"
  onaudioprocess,     \* processor.onaudioprocess is installed
  ctxState,           \* output/input AudioContext: "running" | "closed"
  tState,             \* transport: "none" | "connecting" | "open" | "closing" | "closed"
  sessionResolved,    \* sessionPromise has resolved
  thenQueue,          \* callbacks waiting on sessionPromise.then, in registration order
  sent,               \* what was handed to the open transport, in order
  frames,             \* capture frames produced so far
  clock,              \* ctx.currentTime
  nextStartTimeRef,   \* nextStartTimeRef.current (the playback cursor)
  sourcesRef,         \* sourcesRef.current (the live set), as message ids
  src,                \* per inbound message: what it carried and what became of it
  msgCount,           \* inbound messages received so far
  schedLog,           \* ids in the order source.start was called
  last,               \* the latest source.start call: its id, start, duration,
                      \* the clock at the call, and whether it was the first
                      \* call after an interruption
  interrupts,         \* ids of the messages whose interrupted branch has run
  pendingReset,       \* an interruption was processed and nothing was scheduled since
  mounts,             \* how many times LiveTrivia has been mounted
  orphanPending,      \* earlier instances, exited, whose getUserMedia is still pending
  orphanLive,         \* earlier instances, exited, that hold a live microphone
                      \* stream and a transport connection
  leaderboard,        \* localStorage 'trivia_leaderboard', parsed: a sequence of entries
  quizPc,             \* VisualTrivia: "loading" | "ready" | "unmounted"
  currentIndex,       \* useState currentIndex
  isAnswered,         \* useState isAnswered
  gameOver,           \* useState gameOver
  score,              \* useState score
  questionAudioCache, \* questionAudioCache.current: the question indices it holds
  games,              \* the number of times the quiz was started from the lobby
  loadEffects,        \* the effects of the render that ends loading (lines 148-176):
                      \* "none" (no such render yet), "pending" or "ran"
  audio               \* the quiz's audio: gen is audioGenerationIdRef.current, ref is
                      \* currentAudioSourceRef.current (a source id, 0 for null),
                      \* tbl is what became of every source asked for, n their number

vars == << mounted, initPc, connected, error, micActive, micActiveRef, stream,
           micStops, processor, onaudioprocess, ctxState, tState, sessionResolved,
           thenQueue, sent, frames, clock, nextStartTimeRef, sourcesRef, src,
           msgCount, schedLog, last, interrupts, pendingReset,
           mounts, orphanPending, orphanLive, leaderboard, quizPc, currentIndex,
           isAnswered, gameOver, score, questionAudioCache, loadEffects, audio,
           games >>

lifeVars  == << mounted, initPc, connected, error, stream, micStops, processor,
                onaudioprocess, ctxState, tState, sessionResolved >>
muteVars  == << micActive, micActiveRef >>
sendVars  == << thenQueue, sent, frames >>
playVars  == << nextStartTimeRef, sourcesRef, src, msgCount, schedLog, last,
                interrupts, pendingReset >>
restartVars == << mounts, orphanPending, orphanLive >>
gameVars  == << quizPc, currentIndex, isAnswered, gameOver, score,
                questionAudioCache, loadEffects, audio, games >>
quizVars  == << leaderboard, gameVars >>
liveVars  == << lifeVars, muteVars, sendVars, playVars, clock, restartVars >>

\* ----------------------------------------------------------------- helpers
Max(a, b) == IF a >= b THEN a ELSE b

\* The entry of a message not yet received.  st is "none", "inflight" (its
\* decode is awaited), "dropped" (decode failed), "scheduled", "stopped",
\* "ended", or "ctl" (it carried no audio); ok and dur hold the decode result
\* while it is awaited, int is serverContent.interrupted, end is when a
\* scheduled buffer is over.
NoMsg == [st |-> "none", ok |-> FALSE, dur |-> 0, int |-> FALSE, end |-> 0]

\* A quiz audio source not asked for yet.  st is "none", "pending" (playAudio
\* awaits its text-to-speech), "playing", "stopped" (stop() was called and its
\* ended event is still to come), "silenced" (started and not stopped, on an
\* AudioContext that is closed) or "done"; kind is "tts" (playAudio) or "buf"
\* (playBuffer); myId is playAudio's myId.
NoSource == [st |-> "none", kind |-> "none", myId |-> 0]

\* No source.start call yet.
NoStart == [id |-> 0, start |-> 0, dur |-> 0, at |-> 0, first |-> FALSE]

\* What decodeAudioData gives for a payload: a buffer of some duration, or a
\* failure (the promise rejects).
DecodeResults ==
  { [ok |-> TRUE, dur |-> d] : d \in Durations } \cup { [ok |-> FALSE, dur |-> 0] }

\* The inbound messages considered: with an audio payload (given with what
\* its decode will yield) or without, and with or without
\* serverContent.interrupted.  A message with neither is left out: onmessage
\* does nothing on it.
Messages ==
  { [audio |-> TRUE, ok |-> r.ok, dur |-> r.dur, int |-> i] : r \in DecodeResults, i \in BOOLEAN }
  \cup { [audio |-> FALSE, ok |-> FALSE, dur |-> 0, int |-> TRUE] }

\* ------------------------------------------------------------------- Init
\* The state right after the first render and the mount effect: initSession has
\* created both AudioContexts and awaits getUserMedia; cleanup is still the
\* empty function of line 256.  Of the quiz, the state after its first render.
InitComponents ==
  /\ mounted = TRUE
  /\ initPc = "getUserMedia"
  /\ connected = FALSE
  /\ error = FALSE
  /\ micActive = TRUE
  /\ micActiveRef = TRUE
  /\ stream = "none"
  /\ micStops = 0
  /\ processor = "none"
  /\ onaudioprocess = FALSE
  /\ ctxState = "running"
  /\ tState = "none"
  /\ sessionResolved = FALSE
  /\ thenQueue = << >>
  /\ sent = << >>
  /\ frames = 0
  /\ clock = 0
  /\ nextStartTimeRef = 0
  /\ sourcesRef = {}
  /\ src = [m \in Ids |-> NoMsg]
  /\ msgCount = 0
  /\ schedLog = << >>
  /\ last = NoStart
  /\ interrupts = {}
  /\ pendingReset = FALSE
  /\ mounts = 1
  /\ orphanPending = 0
  /\ orphanLive = 0
  /\ quizPc = "loading"
  /\ games = 1
  /\ currentIndex = 0
  /\ isAnswered = FALSE
  /\ gameOver = FALSE
  /\ score = 0
  /\ questionAudioCache = {}
  /\ loadEffects = "none"
  /\ audio = [gen |-> 0, ref |-> 0, n |-> 0, tbl |-> [s \in QIds |-> NoSource]]

\* The components as above, and no 'trivia_leaderboard' in localStorage
\* (line 224 reads it as the empty list).
Init ==
  /\ InitComponents
  /\ leaderboard = << >>

\* ------------------------------------------------- the session promise
\* What a callback registered with sessionPromise.then does once it runs, on
\* the pair st = [t |-> transport state, out |-> what was sent].  A send on a
\* transport that is not open delivers nothing.
ThenEffect(cb, st) ==
  IF cb.kind = "close"
    THEN [st EXCEPT !.t = IF st.t \in {"connecting", "open"} THEN "closing" ELSE st.t]
    ELSE IF st.t = "open" THEN [st EXCEPT !.out = Append(st.out, cb)] ELSE st

RECURSIVE RunThens(_, _)
\* The callbacks of q run in registration order.
RunThens(q, st) ==
  IF q = << >> THEN st ELSE RunThens(Tail(q), ThenEffect(Head(q), st))

\* Register where a waiting callback is put ahead of the ones that wait
\* already.
RegisterNewestFirst(cb, t) ==
  IF sessionResolved
    THEN LET r == ThenEffect(cb, [t |-> t, out |-> sent])
         IN  /\ tState' = r.t
             /\ sent' = r.out
             /\ thenQueue' = thenQueue
    ELSE /\ tState' = t
         /\ sent' = sent
         /\ thenQueue' = << cb >> \o thenQueue

\* sessionPromise.then(cb): cb runs right away when the promise has resolved,
\* else it waits in thenQueue.  t is the transport state the handler leaves.
Register(cb, t) ==
  IF sessionResolved
    THEN LET r == ThenEffect(cb, [t |-> t, out |-> sent])
         IN  /\ tState' = r.t
             /\ sent' = r.out
             /\ thenQueue' = thenQueue
    ELSE /\ tState' = t
         /\ sent' = sent
         /\ thenQueue' = Append(thenQueue, cb)

\* The field open records whether the transport was open when the callback
\* was registered (for a media blob: when its capture frame was produced), the
\* field error whether the component was showing a transport error then
\* (onerror had run on the mounted component).
StartTurn == [kind |-> "start", muted |-> FALSE, open |-> TRUE, error |-> error]
CloseCall == [kind |-> "close", muted |-> FALSE, open |-> tState = "open", error |-> error]
MediaBlob(m) == [kind |-> "media", muted |-> m, open |-> tState = "open", error |-> error]

\* setConnected(v) and setError(v), called from a callback: the value the
\* state has afterwards.  React applies a state update to a mounted component
\* and drops it once the component is unmounted.
SetConnected(v) == IF mounted THEN v ELSE connected
SetError(v) == IF mounted THEN v ELSE error

\* ------------------------------------------------------- initSession
\* getUserMedia resolves: the stream is wired to the processor, ai.live.connect
\* is called and cleanup is assigned.  Nothing here looks at whether the
\* component is still mounted.
GetUserMediaResolve ==
  /\ initPc = "getUserMedia"
  /\ initPc' = "running"
  /\ stream' = "live"
  /\ processor' = "connected"
  /\ tState' = "connecting"
  /\ UNCHANGED << mounted, connected, error, micStops, onaudioprocess, ctxState,
                  sessionResolved, thenQueue, sent, frames, clock >>
  /\ UNCHANGED muteVars
  /\ UNCHANGED playVars
  /\ UNCHANGED restartVars
  /\ UNCHANGED quizVars

\* GetUserMediaReject where the failure is reported but ai.live.connect is
\* called all the same.
GetUserMediaRejectStillConnects ==
  /\ initPc = "getUserMedia"
  /\ initPc' = "failed"
  /\ error' = SetError(TRUE)
  /\ tState' = "connecting"
  /\ UNCHANGED << mounted, connected, stream, micStops, processor,
                  onaudioprocess, ctxState, sessionResolved, thenQueue, sent,
                  frames, clock >>
  /\ UNCHANGED muteVars
  /\ UNCHANGED playVars
  /\ UNCHANGED restartVars
  /\ UNCHANGED quizVars

\* getUserMedia rejects: the catch block sets the error; nothing else happens.
GetUserMediaReject ==
  /\ initPc = "getUserMedia"
  /\ initPc' = "failed"
  /\ error' = SetError(TRUE)
  /\ UNCHANGED << mounted, connected, stream, micStops, processor,
                  onaudioprocess, ctxState, tState, sessionResolved, clock >>
  /\ UNCHANGED muteVars
  /\ UNCHANGED sendVars
  /\ UNCHANGED playVars
  /\ UNCHANGED restartVars
  /\ UNCHANGED quizVars

\* The promise returned by ai.live.connect resolves; the waiting callbacks run.
SessionResolve ==
  /\ tState \in {"connecting", "open"}
  /\ ~sessionResolved
  /\ sessionResolved' = TRUE
  /\ LET r == RunThens(thenQueue, [t |-> tState, out |-> sent])
     IN  /\ tState' = r.t
         /\ sent' = r.out
  /\ thenQueue' = << >>
  /\ UNCHANGED << mounted, initPc, connected, error, stream, micStops, processor,
                  onaudioprocess, ctxState, frames, clock >>
  /\ UNCHANGED muteVars
  /\ UNCHANGED playVars
  /\ UNCHANGED restartVars
  /\ UNCHANGED quizVars

\* ---------------------------------------------------- transport callbacks
\* OnOpen that installs the capture callback but registers no start turn.
OnOpenWithoutStartTurn ==
  /\ tState = "connecting"
  /\ connected' = SetConnected(TRUE)
  /\ tState' = "open"
  /\ onaudioprocess' = TRUE
  /\ UNCHANGED << mounted, initPc, error, stream, micStops, processor, ctxState,
                  sessionResolved, thenQueue, sent, frames, clock >>
  /\ UNCHANGED muteVars
  /\ UNCHANGED playVars
  /\ UNCHANGED restartVars
  /\ UNCHANGED quizVars

\* onopen: mark connected, register the start turn, install the capture callback.
OnOpen ==
  /\ tState = "connecting"
  /\ connected' = SetConnected(TRUE)
  /\ Register(StartTurn, "open")
  /\ onaudioprocess' = TRUE
  /\ UNCHANGED << mounted, initPc, error, stream, micStops, processor, ctxState,
                  sessionResolved, frames, clock >>
  /\ UNCHANGED muteVars
  /\ UNCHANGED playVars
  /\ UNCHANGED restartVars
  /\ UNCHANGED quizVars

\* onclose: the transport has closed (the remote end closed it, the handshake
\* failed, or a local session.close() completed).
OnClose ==
  /\ tState \in {"connecting", "open", "closing"}
  /\ tState' = "closed"
  /\ connected' = SetConnected(FALSE)
  /\ UNCHANGED << mounted, initPc, error, stream, micStops, processor,
                  onaudioprocess, ctxState, sessionResolved, clock >>
  /\ UNCHANGED muteVars
  /\ UNCHANGED sendVars
  /\ UNCHANGED playVars
  /\ UNCHANGED restartVars
  /\ UNCHANGED quizVars

\* onerror: the error message is set.
OnError ==
  /\ tState \in {"connecting", "open"}
  /\ error' = SetError(TRUE)
  /\ UNCHANGED << mounted, initPc, connected, stream, micStops, processor,
                  onaudioprocess, ctxState, tState, sessionResolved, clock >>
  /\ UNCHANGED muteVars
  /\ UNCHANGED sendVars
  /\ UNCHANGED playVars
  /\ UNCHANGED restartVars
  /\ UNCHANGED quizVars

\* ------------------------------------------------------------- cleanup
\* The release routine assigned at line 390.
Cleanup ==
  /\ Register(CloseCall, tState)
  /\ stream' = "stopped"
  /\ micStops' = micStops + 1
  /\ processor' = "disconnected"
  /\ ctxState' = "closed"

\* Exit: the parent unmounts the component and React runs the effect's
\* `() => cleanup()`.  cleanup is the release routine only once initSession
\* has passed getUserMedia; before that (and after a failure) it is `() => {}`.
Unmount ==
  /\ mounted
  /\ mounted' = FALSE
  /\ IF initPc = "running"
       THEN Cleanup
       ELSE UNCHANGED << stream, micStops, processor, ctxState, tState, thenQueue, sent >>
  /\ UNCHANGED << initPc, connected, error, onaudioprocess, sessionResolved,
                  frames, clock >>
  /\ UNCHANGED muteVars
  /\ UNCHANGED playVars
  /\ UNCHANGED restartVars
  /\ UNCHANGED quizVars

\* ------------------------------------------------------------- capture
\* The value of micActive that onaudioprocess reads.  The callback is created
\* inside the mount effect, whose dependencies are [topic, difficulty,
\* personality]: it closes over the micActive of the render that ran the
\* effect, the first one, where useState(true) gives true.  Later renders
\* (after setMicActive) do not re-create it.
EffectMicActive == TRUE

\* `if (!micActive) return;` of onaudioprocess: TRUE when the frame goes on.
GateOpen == EffectMicActive

\* onaudioprocess: one capture frame is ready.  Frames come only while the
\* processor is connected and its context runs.
CaptureFrame ==
  /\ onaudioprocess
  /\ processor = "connected"
  /\ ctxState = "running"
  /\ frames < MaxFrames
  /\ frames' = frames + 1
  /\ IF GateOpen
       THEN Register(MediaBlob(~micActiveRef), tState)
       ELSE UNCHANGED << tState, thenQueue, sent >>
  /\ UNCHANGED << mounted, initPc, connected, error, stream, micStops, processor,
                  onaudioprocess, ctxState, sessionResolved, clock >>
  /\ UNCHANGED muteVars
  /\ UNCHANGED playVars
  /\ UNCHANGED restartVars
  /\ UNCHANGED quizVars

\* ToggleMic that also resets the playback cursor.
ToggleMicResetsCursor ==
  /\ mounted
  /\ micActive' = ~micActive
  /\ micActiveRef' = ~micActive
  /\ nextStartTimeRef' = 0
  /\ UNCHANGED << sourcesRef, src, msgCount, schedLog, last, interrupts, pendingReset >>
  /\ UNCHANGED lifeVars
  /\ UNCHANGED sendVars
  /\ UNCHANGED clock
  /\ UNCHANGED restartVars
  /\ UNCHANGED quizVars

\* The mute button: setMicActive(!micActive); the effect of line 414 copies
\* the new value into micActiveRef after the render.
ToggleMic ==
  /\ mounted
  /\ micActive' = ~micActive
  /\ micActiveRef' = ~micActive
  /\ UNCHANGED lifeVars
  /\ UNCHANGED sendVars
  /\ UNCHANGED playVars
  /\ UNCHANGED clock
  /\ UNCHANGED restartVars
  /\ UNCHANGED quizVars

\* ------------------------------------------------------------ playback
\* SyncTiming with the minimum in place of the maximum.
SyncTimingTakesMin(cursor, now) == IF cursor <= now THEN cursor ELSE now

\* SyncTiming that takes the clock alone, without the maximum with the cursor.
SyncTimingIgnoresCursor(cursor, now) == now

\* Line 353: nextStartTimeRef.current = Math.max(nextStartTimeRef.current, ctx.currentTime).
SyncTiming(cursor, now) == Max(cursor, now)

\* A cursor that is not advanced by the duration of the buffer just started.
AdvanceCursorDropsDuration(cursor, dur) == cursor

\* Line 367: nextStartTimeRef.current += audioBuffer.duration.
AdvanceCursor(cursor, dur) == cursor + dur

\* Line 374: sourcesRef.current.forEach(s => s.stop()), on the table of sources.
StopAll(tbl, live) ==
  [s \in Ids |-> IF s \in live THEN [tbl[s] EXCEPT !.st = "stopped", !.end = 0] ELSE tbl[s]]

\* ClearSources that leaves the set as it is (no sourcesRef.current.clear()).
ClearSourcesKeeps(live) == live

\* Line 375: sourcesRef.current.clear().
ClearSources(live) == {}

\* An interruption that leaves the cursor where it was.
ResetCursorKeeps(cursor) == cursor

\* Line 376: nextStartTimeRef.current = 0.
ResetCursor(cursor) == 0

\* When a source started with source.start(start) at clock value now is over:
\* a start time in the past plays at once.
EndTime(start, now, dur) == Max(start, now) + dur

\* onmessage up to its await (lines 346-356), or all of it when the message
\* carries no audio (lines 346-349, 372-377).  The server speaks only in
\* answer to the start turn, which is sent once sessionPromise has resolved,
\* so audio and interruptions arrive on an open, resolved session.  limit
\* bounds the number of messages.
OnMessageBegin(msg, limit) ==
  /\ tState = "open"
  /\ sessionResolved
  /\ msgCount < limit
  /\ msgCount' = msgCount + 1
  /\ LET m == msgCount + 1 IN
     IF msg.audio
       THEN /\ nextStartTimeRef' = SyncTiming(nextStartTimeRef, clock)
            /\ src' = [src EXCEPT ![m] = [NoMsg EXCEPT !.st = "inflight", !.ok = msg.ok,
                                                       !.dur = msg.dur, !.int = msg.int]]
            /\ UNCHANGED << sourcesRef, interrupts, pendingReset >>
       ELSE /\ src' = [StopAll(src, sourcesRef) EXCEPT ![m] = [NoMsg EXCEPT !.st = "ctl", !.int = TRUE]]
            /\ sourcesRef' = ClearSources(sourcesRef)
            /\ nextStartTimeRef' = ResetCursor(nextStartTimeRef)
            /\ interrupts' = interrupts \cup {m}
            /\ pendingReset' = TRUE
  /\ UNCHANGED << schedLog, last >>
  /\ UNCHANGED lifeVars
  /\ UNCHANGED muteVars
  /\ UNCHANGED sendVars
  /\ UNCHANGED clock
  /\ UNCHANGED restartVars
  /\ UNCHANGED quizVars

\* onmessage after its await (lines 358-377): decodeAudioData has settled for
\* message m.  A rejected decode ends the handler there.  Otherwise the
\* source is started at the cursor, the cursor advances, the source joins the
\* live set, and then the interrupted branch runs if the message asks for it.
OnMessageResume(m) ==
  /\ src[m].st = "inflight"
  /\ IF ~src[m].ok
       THEN /\ src' = [src EXCEPT ![m].st = "dropped", ![m].dur = 0]
            /\ UNCHANGED << nextStartTimeRef, sourcesRef, schedLog, last,
                            interrupts, pendingReset >>
       ELSE LET start  == nextStartTimeRef
                cursor == AdvanceCursor(nextStartTimeRef, src[m].dur)
                live   == sourcesRef \cup {m}
                tbl    == [src EXCEPT ![m].st = "scheduled", ![m].ok = FALSE, ![m].dur = 0,
                                      ![m].end = EndTime(start, clock, src[m].dur)]
            IN  /\ schedLog' = Append(schedLog, m)
                /\ last' = [id |-> m, start |-> start, dur |-> src[m].dur,
                            at |-> clock, first |-> pendingReset]
                /\ IF src[m].int
                     THEN /\ src' = StopAll(tbl, live)
                          /\ sourcesRef' = ClearSources(live)
                          /\ nextStartTimeRef' = ResetCursor(cursor)
                          /\ interrupts' = interrupts \cup {m}
                          /\ pendingReset' = TRUE
                     ELSE /\ src' = tbl
                          /\ sourcesRef' = live
                          /\ nextStartTimeRef' = cursor
                          /\ pendingReset' = FALSE
                          /\ UNCHANGED interrupts
  /\ UNCHANGED msgCount
  /\ UNCHANGED lifeVars
  /\ UNCHANGED muteVars
  /\ UNCHANGED sendVars
  /\ UNCHANGED clock
  /\ UNCHANGED restartVars
  /\ UNCHANGED quizVars

\* source.onended (lines 362-364) of a buffer that played to its end: the
\* handler deletes it from the live set.  (The ended event of a source that
\* an interruption stopped finds the set already cleared and changes nothing.)
SourceEnded(s) ==
  /\ ctxState = "running"
  /\ src[s].st = "scheduled"
  /\ src[s].end <= clock
  /\ sourcesRef' = sourcesRef \ {s}
  /\ src' = [src EXCEPT ![s].st = "ended", ![s].end = 0]
  /\ UNCHANGED << nextStartTimeRef, msgCount, schedLog, last, interrupts, pendingReset >>
  /\ UNCHANGED lifeVars
  /\ UNCHANGED muteVars
  /\ UNCHANGED sendVars
  /\ UNCHANGED clock
  /\ UNCHANGED restartVars
  /\ UNCHANGED quizVars

\* Tick with an idle timer: when the clock reaches MaxTime and no message has
\* come in, the session is marked not connected.
TickWithIdleTimeout ==
  /\ ctxState = "running"
  /\ clock < MaxTime
  /\ clock' = clock + 1
  /\ connected' = IF clock + 1 = MaxTime /\ msgCount = 0 THEN FALSE ELSE connected
  /\ UNCHANGED << mounted, initPc, error, stream, micStops, processor,
                  onaudioprocess, ctxState, tState, sessionResolved >>
  /\ UNCHANGED muteVars
  /\ UNCHANGED sendVars
  /\ UNCHANGED playVars
  /\ UNCHANGED restartVars
  /\ UNCHANGED quizVars

\* The playback clock advances while the context runs.
Tick ==
  /\ ctxState = "running"
  /\ clock < MaxTime
  /\ clock' = clock + 1
  /\ UNCHANGED lifeVars
  /\ UNCHANGED muteVars
  /\ UNCHANGED sendVars
  /\ UNCHANGED playVars
  /\ UNCHANGED restartVars
  /\ UNCHANGED quizVars

\* The playback clock goes on past MaxTime for as long as a scheduled source
\* has its end ahead, so that no source is kept from ending by the bound.
TickDrain ==
  /\ ctxState = "running"
  /\ clock >= MaxTime
  /\ \E s \in Ids : src[s].st = "scheduled" /\ src[s].end > clock
  /\ clock' = clock + 1
  /\ UNCHANGED lifeVars
  /\ UNCHANGED muteVars
  /\ UNCHANGED sendVars
  /\ UNCHANGED playVars
  /\ UNCHANGED restartVars
  /\ UNCHANGED quizVars

\* ------------------------------------------------------------- restart
\* The instance that is (or was last) mounted holds a session that is live:
\* its microphone stream is live and its transport is connecting or open.
CurrentLive == stream = "live" /\ tState \in {"connecting", "open"}

\* The user starts the conversation again from the lobby (App.tsx: onExit
\* sets the mode to LOBBY, onStartGame sets it back to VOICE_CHAT): React
\* mounts a new LiveTrivia, with fresh state and refs, and runs its mount
\* effect.  Nothing is shared with the earlier instance, and nothing stops
\* what the earlier instance still has running: its pending getUserMedia, or
\* the session it set up after its exit.
Remount ==
  /\ ~mounted
  /\ mounts < MaxMounts
  /\ mounts' = mounts + 1
  /\ orphanPending' = orphanPending + (IF initPc = "getUserMedia" THEN 1 ELSE 0)
  /\ orphanLive' = orphanLive + (IF CurrentLive THEN 1 ELSE 0)
  /\ mounted' = TRUE
  /\ initPc' = "getUserMedia"
  /\ connected' = FALSE
  /\ error' = FALSE
  /\ micActive' = TRUE
  /\ micActiveRef' = TRUE
  /\ stream' = "none"
  /\ micStops' = 0
  /\ processor' = "none"
  /\ onaudioprocess' = FALSE
  /\ ctxState' = "running"
  /\ tState' = "none"
  /\ sessionResolved' = FALSE
  /\ thenQueue' = << >>
  /\ sent' = << >>
  /\ frames' = 0
  /\ clock' = 0
  /\ nextStartTimeRef' = 0
  /\ sourcesRef' = {}
  /\ src' = [m \in Ids |-> NoMsg]
  /\ msgCount' = 0
  /\ schedLog' = << >>
  /\ last' = NoStart
  /\ interrupts' = {}
  /\ pendingReset' = FALSE
  /\ UNCHANGED quizVars

\* getUserMedia of an earlier instance resolves after that instance was
\* unmounted: its initSession goes on as in GetUserMediaResolve (stream
\* wired, ai.live.connect called); its cleanup will never be called.
OrphanGetUserMediaResolve ==
  /\ orphanPending > 0
  /\ orphanPending' = orphanPending - 1
  /\ orphanLive' = orphanLive + 1
  /\ UNCHANGED mounts
  /\ UNCHANGED lifeVars
  /\ UNCHANGED muteVars
  /\ UNCHANGED sendVars
  /\ UNCHANGED playVars
  /\ UNCHANGED clock
  /\ UNCHANGED quizVars

\* getUserMedia of an earlier instance rejects.
OrphanGetUserMediaReject ==
  /\ orphanPending > 0
  /\ orphanPending' = orphanPending - 1
  /\ UNCHANGED << mounts, orphanLive >>
  /\ UNCHANGED lifeVars
  /\ UNCHANGED muteVars
  /\ UNCHANGED sendVars
  /\ UNCHANGED playVars
  /\ UNCHANGED clock
  /\ UNCHANGED quizVars

\* The transport of an earlier instance closes (onclose); its microphone
\* stream stays live, but it no longer has a transport connection.
OrphanOnClose ==
  /\ orphanLive > 0
  /\ orphanLive' = orphanLive - 1
  /\ UNCHANGED << mounts, orphanPending >>
  /\ UNCHANGED lifeVars
  /\ UNCHANGED muteVars
  /\ UNCHANGED sendVars
  /\ UNCHANGED playVars
  /\ UNCHANGED clock
  /\ UNCHANGED quizVars

\* ------------------------------------------------------------ the system
\* The whole session: every action, with MaxSessionMsgs inbound messages.
Next ==
  \/ GetUserMediaResolve
  \/ GetUserMediaReject
  \/ SessionResolve
  \/ OnOpen
  \/ OnClose
  \/ OnError
  \/ Unmount
  \/ CaptureFrame
  \/ ToggleMic
  \/ \E msg \in Messages : OnMessageBegin(msg, MaxSessionMsgs)
  \/ \E m \in Ids : OnMessageResume(m)
  \/ \E s \in Ids : SourceEnded(s)
  \/ Tick

Spec == Init /\ [][Next]_vars

\* A session with its playback, its remote close and its exit, in which what
\* the platform does on its own does happen: the clock advances while the
\* context runs, a pending decode settles, a source whose end has come fires
\* its ended event.  Nothing obliges the server to send, the transport to
\* close or the user to exit.
NextDrain ==
  \/ GetUserMediaResolve
  \/ SessionResolve
  \/ OnOpen
  \/ OnClose
  \/ Unmount
  \/ \E msg \in Messages : OnMessageBegin(msg, MaxSessionMsgs)
  \/ \E m \in Ids : OnMessageResume(m)
  \/ \E s \in Ids : SourceEnded(s)
  \/ Tick
  \/ TickDrain

SpecDrain ==
  /\ Init
  /\ [][NextDrain]_vars
  /\ WF_vars(Tick)
  /\ WF_vars(TickDrain)
  /\ \A m \in Ids : WF_vars(OnMessageResume(m))
  /\ \A s \in Ids : WF_vars(SourceEnded(s))

\* The playback side of a session that opens and stays open, with MaxMsgs
\* inbound messages.  The actions left out (capture, mute, close, error, exit)
\* write none of the playback variables; they can only stop messages, the
\* clock and completion callbacks, which this specification may do as well
\* at any point, so every sequence of playback states of Spec is one of
\* SpecPlayback.
NextPlayback ==
  \/ GetUserMediaResolve
  \/ SessionResolve
  \/ OnOpen
  \/ \E msg \in Messages : OnMessageBegin(msg, MaxMsgs)
  \/ \E m \in Ids : OnMessageResume(m)
  \/ \E s \in Ids : SourceEnded(s)
  \/ Tick

SpecPlayback == Init /\ [][NextPlayback]_vars

\* The life cycle of the session over several mounts.
NextRestart ==
  \/ GetUserMediaResolve
  \/ GetUserMediaReject
  \/ SessionResolve
  \/ OnOpen
  \/ OnClose
  \/ OnError
  \/ Unmount
  \/ Remount
  \/ OrphanGetUserMediaResolve
  \/ OrphanGetUserMediaReject
  \/ OrphanOnClose

SpecRestart == Init /\ [][NextRestart]_vars

\* ------------------------------------------------------ turn-based quiz
\* slice(0, 50) of handleSaveScore (VisualTrivia.tsx line 225).
LeaderboardCap == 50

\* A string is the sequence of its UTF-16 code units.  The code units that
\* String.prototype.trim removes, ECMAScript's WhiteSpace and LineTerminator:
\* tab, line feed, vertical tab, form feed, carriage return, space, no-break
\* space, U+1680, U+2000 to U+200A, U+2028, U+2029, U+202F, U+205F, U+3000
\* and U+FEFF.
WhiteSpace ==
  {9, 10, 11, 12, 13, 32, 160, 5760} \cup (8192..8202)
    \cup {8232, 8233, 8239, 8287, 12288, 65279}

\* Values of the playerName input: empty; white space only (a space, two
\* spaces, a tab, carriage return and line feed, a no-break space, an
\* ideographic space); and the name "a" typed after a space (32, 97).
PlayerNames ==
  { << >>, << 32 >>, << 32, 32 >>, << 9 >>, << 13, 10 >>, << 160 >>,
    << 12288 >>, << 32, 97 >> }

RECURSIVE TrimStart(_)
\* The string without its leading white space.
TrimStart(s) ==
  IF s # << >> /\ Head(s) \in WhiteSpace THEN TrimStart(Tail(s)) ELSE s

RECURSIVE TrimEnd(_)
\* The string without its trailing white space.
TrimEnd(s) ==
  IF s # << >> /\ s[Len(s)] \in WhiteSpace
    THEN TrimEnd(SubSeq(s, 1, Len(s) - 1)) ELSE s

\* Trim that returns the string as it is.
TrimKeepsSpaces(s) == s

\* String.prototype.trim (line 214).
Trim(s) == TrimEnd(TrimStart(s))

\* The place that the entry at position i of s takes when s is sorted by
\* score descending with a stable sort: behind the entries of greater score
\* and behind the entries of equal score that stand before it.
RankByScore(s, i) ==
  1 + Cardinality({ j \in 1..Len(s) :
                      \/ s[j].score > s[i].score
                      \/ (s[j].score = s[i].score /\ j < i) })

\* Array.prototype.sort with the comparator (a, b) => b.score - a.score
\* (line 225): descending by score; the sort is stable, entries of equal score
\* keep their order.
SortByScoreDesc(s) ==
  [k \in 1..Len(s) |-> s[CHOOSE i \in 1..Len(s) : RankByScore(s, i) = k]]

\* Array.prototype.slice(0, n).
Slice(s, n) == SubSeq(s, 1, IF Len(s) < n THEN Len(s) ELSE n)

\* Line 225: the entry appended to the stored list, the list sorted by score
\* and cut to its first 50 entries.
Updated(existing, entry) ==
  Slice(SortByScoreDesc(Append(existing, entry)), LeaderboardCap)

\* The leaderboard that n earlier games have left in localStorage, all saved
\* under the name "a" (97): hi of them (or all, if hi exceeds n) ended with
\* score 80, one right answer and then a wrong one, the others with score
\* 100, one wrong answer and then a right one.  Line 225 keeps the list
\* sorted: the entries with score 100 come first.
EarlierGames(n, hi) ==
  [i \in 1..n |-> [name |-> << 97 >>, score |-> IF i <= n - hi THEN 100 ELSE 80]]

\* What 'trivia_leaderboard' may hold when the application is opened: nothing,
\* or the saves of earlier visits that leave the list one short of full or
\* full.
StoredLeaderboards ==
  { EarlierGames(n, hi) : n \in {0, LeaderboardCap - 1, LeaderboardCap},
                          hi \in {0, 1, LeaderboardCap} }

\* The components after their first render, with the leaderboard of earlier
\* visits in localStorage.
InitStored ==
  /\ InitComponents
  /\ leaderboard \in StoredLeaderboards

\* stopCurrentAudio (lines 67-77): stop the source the ref holds, if any, and
\* clear the ref.  stop() on a source that is over does nothing.
StopCurrentAudio(a) ==
  IF a.ref # 0
    THEN [a EXCEPT !.tbl[a.ref].st = IF @ = "playing" THEN "stopped" ELSE @,
                   !.ref = 0]
    ELSE a

\* ctx.close() (line 63): the sources that are playing fall silent.
CloseContext(a) ==
  [a EXCEPT !.tbl = [s \in QIds |->
                       IF a.tbl[s].st = "playing"
                         THEN [a.tbl[s] EXCEPT !.st = "silenced"]
                         ELSE a.tbl[s]]]

\* The cleanup of the mount effect (lines 60-63): stopCurrentAudio, ctx.close().
QuizCleanup(a) == CloseContext(StopCurrentAudio(a))

\* playBuffer (lines 79-93): stop the current audio, start a source on the
\* cached buffer and keep it in the ref.  audioGenerationIdRef is not touched.
PlayBuffer(a) ==
  LET b == StopCurrentAudio(a)
      s == b.n + 1
  IN  [b EXCEPT !.n = s,
                !.tbl[s] = [st |-> "playing", kind |-> "buf", myId |-> 0],
                !.ref = s]

\* playAudio up to its await (lines 95-105): take the next generation id,
\* stop the current audio, ask for the text-to-speech.
PlayAudio(a) ==
  LET g == a.gen + 1
      b == StopCurrentAudio([a EXCEPT !.gen = g])
      s == b.n + 1
  IN  [b EXCEPT !.n = s,
                !.tbl[s] = [st |-> "pending", kind |-> "tts", myId |-> g]]

\* The effect of lines 162-176, run for question i after a render with
\* !loading, data, !isAnswered and !gameOver: stop the current audio, then
\* play the cached buffer of the question, or ask for its text-to-speech.
QuestionEffect(a, i, cache) ==
  IF i \in cache THEN PlayBuffer(StopCurrentAudio(a))
                 ELSE PlayAudio(StopCurrentAudio(a))

\* React runs the effects that still wait from the render that ended loading
\* before it renders again or unmounts: the question effect of that render,
\* which saw !isAnswered, on the audio a.
FlushLoadEffects(a) ==
  IF loadEffects = "pending"
    THEN QuestionEffect(a, currentIndex, questionAudioCache)
    ELSE a

\* loadEffects once the waiting effects have run.
Flushed == IF loadEffects = "pending" THEN "ran" ELSE loadEffects

\* App.handleStartGame (App.tsx lines 31-39) with the quiz chosen in the
\* lobby, after an exit: VisualTrivia is mounted anew, with the initial values
\* of its state and refs (lines 40-55).
QuizMount ==
  /\ quizPc = "unmounted"
  /\ games < MaxGames
  /\ games' = games + 1
  /\ quizPc' = "loading"
  /\ currentIndex' = 0
  /\ isAnswered' = FALSE
  /\ gameOver' = FALSE
  /\ score' = 0
  /\ questionAudioCache' = {}
  /\ loadEffects' = "none"
  /\ audio' = [gen |-> 0, ref |-> 0, n |-> 0, tbl |-> [s \in QIds |-> NoSource]]
  /\ UNCHANGED leaderboard
  /\ UNCHANGED liveVars

\* generateTriviaQuestions resolves (lines 131-144) and React renders:
\* loading ends, the question is on screen.  The effects of that render
\* (lines 148-176) run in a later task.
QuizLoaded ==
  /\ quizPc = "loading"
  /\ quizPc' = "ready"
  /\ loadEffects' = "pending"
  /\ UNCHANGED << currentIndex, isAnswered, gameOver, score, questionAudioCache,
                  audio, leaderboard >>
  /\ UNCHANGED games
  /\ UNCHANGED liveVars

\* The effects of the render that ended loading run (lines 148-176): the
\* pre-fetch requests go out and the first question is read out.
RunLoadEffects ==
  /\ quizPc = "ready"
  /\ loadEffects = "pending"
  /\ loadEffects' = "ran"
  /\ audio' = FlushLoadEffects(audio)
  /\ UNCHANGED << quizPc, currentIndex, isAnswered, gameOver, score,
                  questionAudioCache, leaderboard >>
  /\ UNCHANGED games
  /\ UNCHANGED liveVars

\* A pre-fetched question audio arrives (lines 148-159) and is cached, also
\* after the quiz was left.
CacheFill(i) ==
  /\ loadEffects = "ran"
  /\ i \notin questionAudioCache
  /\ questionAudioCache' = questionAudioCache \cup {i}
  /\ UNCHANGED << quizPc, currentIndex, isAnswered, gameOver, score, loadEffects,
                  audio, leaderboard >>
  /\ UNCHANGED games
  /\ UNCHANGED liveVars

\* HandleAnswer where a wrong answer takes 20 points off whatever the score.
HandleAnswerWithoutFloor(isCorrect) ==
  /\ quizPc = "ready"
  /\ ~isAnswered
  /\ isAnswered' = TRUE
  /\ score' = IF isCorrect THEN score + 100 ELSE score - 20
  /\ audio' = FlushLoadEffects(PlayAudio(StopCurrentAudio(audio)))
  /\ loadEffects' = Flushed
  /\ UNCHANGED << quizPc, currentIndex, gameOver, questionAudioCache, leaderboard >>
  /\ UNCHANGED games
  /\ UNCHANGED liveVars

\* handleAnswer (lines 178-197); isCorrect is option === correctAnswer.  A
\* click that comes before the effects of the loading render have run is
\* handled first, and those effects run before the render that follows.
HandleAnswer(isCorrect) ==
  /\ quizPc = "ready"
  /\ ~isAnswered
  /\ isAnswered' = TRUE
  /\ score' = IF isCorrect THEN score + 100 ELSE Max(0, score - 20)
  /\ audio' = FlushLoadEffects(PlayAudio(StopCurrentAudio(audio)))
  /\ loadEffects' = Flushed
  /\ UNCHANGED << quizPc, currentIndex, gameOver, questionAudioCache, leaderboard >>
  /\ UNCHANGED games
  /\ UNCHANGED liveVars

\* nextQuestion (lines 199-211), offered once the question is answered, and
\* the effect of lines 162-176 that follows the render when there is a next
\* question.
NextQuestion ==
  /\ quizPc = "ready"
  /\ isAnswered
  /\ ~gameOver
  /\ IF currentIndex < MaxQuestions - 1
       THEN /\ currentIndex' = currentIndex + 1
            /\ isAnswered' = FALSE
            /\ audio' = QuestionEffect(StopCurrentAudio(audio), currentIndex + 1,
                                       questionAudioCache)
            /\ UNCHANGED gameOver
       ELSE /\ gameOver' = TRUE
            /\ audio' = PlayAudio(StopCurrentAudio(audio))
            /\ UNCHANGED << currentIndex, isAnswered >>
  /\ UNCHANGED << quizPc, score, questionAudioCache, loadEffects, leaderboard >>
  /\ UNCHANGED games
  /\ UNCHANGED liveVars

\* playTextToSpeech resolves for the request s and playAudio goes on after
\* its await (lines 107-127), in one go, also after the quiz was left.
\* Without a buffer (ok false) nothing plays.  With one, playTextToSpeech has
\* already started the source (part_001 lines 212-226), which gives no sound
\* when the AudioContext is closed; playAudio stops it if its myId is not the
\* current generation id, else keeps it in the ref and installs onended.
TTSResolve(s, ok) ==
  /\ audio.tbl[s].st = "pending"
  /\ audio' = IF ~ok \/ audio.tbl[s].myId # audio.gen
                THEN [audio EXCEPT !.tbl[s].st = "done"]
                ELSE [audio EXCEPT
                        !.tbl[s].st = IF quizPc = "unmounted" THEN "silenced"
                                                              ELSE "playing",
                        !.ref = s]
  /\ UNCHANGED << quizPc, currentIndex, isAnswered, gameOver, score,
                  questionAudioCache, loadEffects, leaderboard >>
  /\ UNCHANGED games
  /\ UNCHANGED liveVars

\* The ended event of the source s, which played to its end or was stopped:
\* onended of playBuffer (lines 86-89) clears the ref; onended of playAudio
\* (lines 115-120) clears it when its myId is the current generation id.
QSourceEnded(s) ==
  /\ quizPc = "ready"
  /\ audio.tbl[s].st \in {"playing", "stopped"}
  /\ audio' = [audio EXCEPT
                 !.tbl[s].st = "done",
                 !.ref = IF audio.tbl[s].kind = "buf" \/ audio.tbl[s].myId = audio.gen
                           THEN 0 ELSE @]
  /\ UNCHANGED << quizPc, currentIndex, isAnswered, gameOver, score,
                  questionAudioCache, loadEffects, leaderboard >>
  /\ UNCHANGED games
  /\ UNCHANGED liveVars

\* The quiz is left (onExit, App.handleExit): effects that still wait run,
\* then the mount effect's cleanup (lines 60-63) stops the current audio and
\* closes the AudioContext.
QuizUnmount ==
  /\ quizPc # "unmounted"
  /\ quizPc' = "unmounted"
  /\ audio' = QuizCleanup(FlushLoadEffects(audio))
  /\ loadEffects' = Flushed
  /\ UNCHANGED << currentIndex, isAnswered, gameOver, score, questionAudioCache,
                  leaderboard >>
  /\ UNCHANGED games
  /\ UNCHANGED liveVars

\* handleSaveScore (lines 213-228), the Save button of the game-over screen,
\* with the value of the playerName input.  A blank name returns at once.
\* Otherwise the entry is appended to the stored list, the list is sorted,
\* cut and stored, and onExit() leaves the quiz in the same task.  Of the
\* entry, topic, difficulty and date are left out: nothing reads them.
HandleSaveScore(playerName) ==
  /\ quizPc = "ready"
  /\ gameOver
  /\ IF Trim(playerName) = << >>
       THEN UNCHANGED << leaderboard, quizPc, audio >>
       ELSE LET entry    == [name |-> playerName, score |-> score]
                existing == leaderboard
                updated  == Updated(existing, entry)
            IN  /\ leaderboard' = updated
                /\ quizPc' = "unmounted"
                /\ audio' = QuizCleanup(audio)
  /\ UNCHANGED << currentIndex, isAnswered, gameOver, score, questionAudioCache,
                  loadEffects >>
  /\ UNCHANGED games
  /\ UNCHANGED liveVars

\* The quiz with its audio, game after game; scores are not saved.
NextQuiz ==
  \/ QuizMount
  \/ QuizLoaded
  \/ RunLoadEffects
  \/ \E i \in 0..(MaxQuestions - 1) : CacheFill(i)
  \/ \E isCorrect \in BOOLEAN : HandleAnswer(isCorrect)
  \/ NextQuestion
  \/ \E s \in QIds, ok \in BOOLEAN : TTSResolve(s, ok)
  \/ \E s \in QIds : QSourceEnded(s)
  \/ QuizUnmount

SpecQuiz == Init /\ [][NextQuiz]_vars

\* Games played to their end and saved, one after the other, on top of what
\* earlier visits have stored.  The
\* text-to-speech requests and the pre-fetch stay unanswered: they write
\* neither the score nor the leaderboard.
NextLeaderboard ==
  \/ QuizMount
  \/ QuizLoaded
  \/ RunLoadEffects
  \/ \E isCorrect \in BOOLEAN : HandleAnswer(isCorrect)
  \/ NextQuestion
  \/ \E playerName \in PlayerNames : HandleSaveScore(playerName)

SpecLeaderboard == InitStored /\ [][NextLeaderboard]_vars

\* ================================================================ claims
\* No message received so far carried serverContent.interrupted.
NoInterruptReceived == \A m \in Ids : ~src[m].int

\* ------------------------------------------------------------------- C1
\* C1: while no Interrupted signal has been received, every source.start call
\* gets a start time that is not below the start time of the call before it,
\* and not below that start plus that buffer's duration, whatever the delays
\* between messages and the decode latencies.
C1_ScheduledBuffersNeverOverlap ==
  [][ ( /\ Len(schedLog') = Len(schedLog) + 1
        /\ last.id # 0
        /\ \A m \in Ids : ~src'[m].int )
      => ( /\ last'.start >= last.start
           /\ last'.start >= last.start + last.dur ) ]_vars

\* Two chunks were scheduled against their receipt order (the later one
\* decoded first), some time after the clock started, and no interruption
\* was received.
C1_Witness ==
  /\ Len(schedLog) >= 2
  /\ schedLog[1] > schedLog[2]
  /\ last.at > 0
  /\ NoInterruptReceived

\* ------------------------------------------------------------------- C2
\* C2: the start time passed to source.start is never earlier than the
\* playback clock at the moment of the call.
C2_StartNeverBeforeNow == last.id # 0 => last.start >= last.at

\* ------------------------------------------------------------------- C3
\* C3: the first buffer scheduled after an interruption was processed starts
\* at the value the playback clock has when it is scheduled.
C3_FirstStartAfterInterruptIsNow ==
  (last.id # 0 /\ last.first) => last.start = last.at

\* ------------------------------------------------------------------- C4
\* C4: the step that processes an Interrupted signal, in whatever state it
\* arrives, leaves every buffer of the live set stopped, the live set empty
\* and the cursor at 0.
C4_InterruptStopsClearsResets ==
  [][ interrupts' # interrupts
      => ( /\ \A s \in sourcesRef : src'[s].st = "stopped"
           /\ \A s \in Ids : src'[s].st # "scheduled"
           /\ sourcesRef' = {}
           /\ nextStartTimeRef' = 0 ) ]_vars

\* The latest message was an interruption without audio, and processing it
\* stopped two buffers that were live.
C4_Witness ==
  /\ \E i \in interrupts : src[i].st = "ctl" /\ i = msgCount
  /\ Cardinality({s \in Ids : src[s].st = "stopped"}) >= 2
  /\ sourcesRef = {}
  /\ nextStartTimeRef = 0

\* ------------------------------------------------------------------- C5
\* C5: a chunk received before an Interrupted signal is not in the live set
\* once that signal has been processed.
C5_NoChunkFromBeforeInterruptIsLive ==
  \A s \in sourcesRef : \A i \in interrupts : s > i

\* ------------------------------------------------------------------- C6
\* C6: no capture frame produced while the mute gate is muted is handed to
\* the transport.
C6_MutedFramesAreNotSent == \A k \in 1..Len(sent) : ~sent[k].muted

\* ------------------------------------------------------------------- C7
\* The transport is closing or closed (a local session.close() went out, or
\* onclose has run), or a close callback waits on the session promise.
TransportClosedOrClosing ==
  \/ tState \in {"closing", "closed"}
  \/ \E k \in 1..Len(thenQueue) : thenQueue[k].kind = "close"

\* C7: after an exit, in whatever state it was issued, no session resource
\* is live: the microphone tracks are stopped, capture is stopped, playback
\* is stopped and the transport is closed or closing.
C7_ExitReleasesEverything ==
  (~mounted /\ initPc = "running")
    => ( /\ stream = "stopped"
         /\ processor = "disconnected"
         /\ ctxState = "closed"
         /\ TransportClosedOrClosing )

\* ------------------------------------------------------------------- C8
\* The error of a transport error is shown: onerror has run on the mounted
\* component and setError has set the state (the catch block sets it only
\* when initSession failed; after an exit setError is dropped).
TransportErrorShown == error /\ initPc = "running"

\* C8: after a close event or a transport error event the microphone is
\* released, capture is stopped and playback is stopped.
C8_CloseAndErrorRelease ==
  (tState = "closed" \/ TransportErrorShown)
    => ( /\ stream # "live"
         /\ processor # "connected"
         /\ ctxState = "closed" )

\* ------------------------------------------------------------------- C9
\* C9: once the transport has closed, or the component has exited, no buffer
\* is left in the live set or left scheduled, and the session is marked
\* closed.
C9_CloseEmptiesLiveSet ==
  (tState = "closed" \/ ~mounted)
    => ( /\ sourcesRef = {}
         /\ \A s \in Ids : src[s].st # "scheduled"
         /\ (tState = "closed" => ~connected) )

\* ------------------------------------------------------------------ C10
\* C10: when the session is over (the component has exited and microphone
\* acquisition has settled), an acquired microphone has been released
\* exactly once.
C10_MicReleasedExactlyOnce ==
  (~mounted /\ initPc # "getUserMedia" /\ stream # "none") => micStops = 1


\* C11: a capture frame produced while the transport is not open is never
\* transmitted: every media blob that reached the transport was produced while
\* the transport was open and before any error event, so none produced before
\* the open event, during the handshake or after a close or an error is sent,
\* at once or later from the queue of the session promise.
C11_FramesOutsideOpenNeverSent ==
  \A k \in 1..Len(sent) :
    sent[k].kind = "media" => (sent[k].open /\ ~sent[k].error)

\* C12: chunks are placed on the playback timeline in the order in which their
\* messages were received: with no interruption, a chunk received earlier
\* (smaller id) is scheduled before every chunk received later, whatever the
\* decode latencies.
C12_ScheduledInReceiptOrder ==
  NoInterruptReceived
    => \A i, j \in 1..Len(schedLog) : i < j => schedLog[i] < schedLog[j]

\* C13: steady-state streaming is gapless: when a chunk is scheduled while the
\* end of the previously scheduled buffer (the cursor the previous scheduling
\* left) is not behind the playback clock, and no interruption came in
\* between, its start equals exactly that end (previous start + duration).
C13_BackToBackStartIsPreviousEnd ==
  [][ ( /\ Len(schedLog') = Len(schedLog) + 1
        /\ last.id # 0
        /\ ~pendingReset
        /\ last.start + last.dur >= clock )
      => last'.start = last.start + last.dur ]_vars

\* A chunk other than the first has been scheduled after the clock had
\* advanced, at a start beyond the clock: its start is the end of the buffer
\* before it, not a clock value.
C13_Witness ==
  /\ Len(schedLog) >= 2
  /\ NoInterruptReceived
  /\ ~last.first
  /\ last.at >= 1
  /\ last.start > last.at

\* C14: when the playback clock has passed the cursor by the time a chunk is
\* scheduled, the chunk's start equals the clock's current time, never a time
\* in the past, and the cursor becomes now + duration (unless the same
\* message also carries an interruption, which resets the cursor).
C14_StalledStartIsNow ==
  [][ ( /\ Len(schedLog') = Len(schedLog) + 1
        /\ nextStartTimeRef < clock )
      => ( /\ last'.start = clock
           /\ (last'.id \notin interrupts' => nextStartTimeRef' = clock + last'.dur) ) ]_vars

\* C15: in every reachable state the live set contains exactly the buffers
\* that have been scheduled and have neither completed (onended) nor been
\* force-stopped by an interruption.
C15_LiveSetIsScheduledNotEndedNotStopped ==
  sourcesRef = {s \in Ids : src[s].st = "scheduled"}

\* One buffer has completed, one has been force-stopped and one is live.
C15_Witness ==
  /\ \E s \in Ids : src[s].st = "ended"
  /\ \E s \in Ids : src[s].st = "stopped"
  /\ Cardinality(sourcesRef) = 1

\* C16: a chunk whose decode fails is dropped alone: the step that drops it
\* adds no buffer to the live set, schedules nothing and leaves the cursor
\* where it was; and a valid chunk received after a dropped one is still
\* scheduled by the normal rule: its start is max(cursor, now) at the moment
\* it is scheduled, it joins the live set and the cursor becomes its end
\* (unless its own message carries an interruption).
C16_DecodeFailureDropsOnlyThatChunk ==
  [][ /\ \A m \in Ids :
           (src[m].st = "inflight" /\ src'[m].st = "dropped")
             => ( /\ sourcesRef' = sourcesRef
                  /\ nextStartTimeRef' = nextStartTimeRef
                  /\ schedLog' = schedLog
                  /\ \A s \in Ids \ {m} : src'[s] = src[s] )
      /\ ( /\ Len(schedLog') = Len(schedLog) + 1
           /\ \E d \in Ids : src[d].st = "dropped" /\ d < last'.id )
         => ( /\ last'.start = Max(nextStartTimeRef, clock)
              /\ (last'.id \notin interrupts'
                    => /\ last'.id \in sourcesRef'
                       /\ nextStartTimeRef' = last'.start + last'.dur) ) ]_vars

\* C17 as stated: if microphone acquisition fails the session does not
\* proceed: from then on no transport connection exists, no capture callback
\* is installed, no stream is held, the error state is set, and acquisition
\* is not tried again (the failure is final).
C17_AcquisitionFailureStopsSession ==
  [][ /\ initPc = "failed" => initPc' = "failed"
      /\ initPc' = "failed"
           => ( /\ tState' = "none"
                /\ ~connected'
                /\ ~onaudioprocess'
                /\ stream' = "none"
                /\ processor' = "none"
                /\ error'
                /\ sent' = << >> ) ]_vars

\* C17 amended: if microphone acquisition fails the session does not
\* proceed: from then on no transport connection exists, no capture callback
\* is installed, no stream is held and acquisition is not tried again; the
\* error state is set by the failure exactly when the component is still
\* mounted at that moment, and does not change afterwards.
C17_AcquisitionFailureStopsSessionErrorWhileMounted ==
  [][ /\ initPc = "failed" => (initPc' = "failed" /\ error' = error)
      /\ (initPc # "failed" /\ initPc' = "failed") => (error' = mounted)
      /\ initPc' = "failed"
           => ( /\ tState' = "none"
                /\ ~connected'
                /\ ~onaudioprocess'
                /\ stream' = "none"
                /\ processor' = "none"
                /\ sent' = << >> ) ]_vars

\* Acquisition has failed and the user has since left the conversation.
C17_Witness ==
  /\ initPc = "failed"
  /\ error
  /\ ~mounted

\* C18: the session becomes Active (connected) only at the transport's open
\* event and capture is installed only from that event on; once a close or an
\* error event has been received the session is not Active, in that step and
\* in every later one.
C18_ActiveOnlyBetweenOpenAndCloseOrError ==
  [][ /\ (connected' /\ ~connected) => (tState = "connecting" /\ tState' = "open")
      /\ (onaudioprocess' /\ ~onaudioprocess) => (tState = "connecting" /\ tState' = "open")
      /\ (tState' = "closed" \/ (error' /\ initPc' = "running")) => ~connected' ]_vars

\* The positions of sent that hold a start turn.
StartTurnsSent == {k \in 1..Len(sent) : sent[k].kind = "start"}

\* C19 as stated: a session sends at most one start turn, sends it only after
\* the open event, and has sent exactly one as soon as the open event has
\* happened and the session promise has delivered the session.
C19_ExactlyOneStartTurnAfterOpen ==
  /\ Cardinality(StartTurnsSent) <= 1
  /\ StartTurnsSent # {} => (onaudioprocess /\ tState \in {"open", "closing", "closed"})
  /\ (onaudioprocess /\ sessionResolved) => StartTurnsSent = {1}

\* C19 amended: a session sends at most one start turn, only after the open
\* event and ahead of every capture frame; when the open event arrives before
\* the user has exited, the start turn is sent at once or is the first
\* callback waiting on the session promise, and a start turn first in that
\* queue is sent when the promise resolves.
C19_StartTurnOnceUnlessExitBeforeOpen ==
  [][ /\ Cardinality(StartTurnsSent') <= 1
      /\ StartTurnsSent' # {} => (StartTurnsSent' = {1} /\ onaudioprocess')
      /\ (onaudioprocess' /\ ~onaudioprocess /\ mounted)
           => IF sessionResolved THEN StartTurnsSent' = {1}
                                 ELSE thenQueue' = << StartTurn >>
      /\ (sessionResolved' /\ ~sessionResolved
             /\ thenQueue # << >> /\ Head(thenQueue).kind = "start")
           => StartTurnsSent' = {1} ]_vars

\* The start turn went out first, from the queue of the session promise or at
\* once, and capture frames followed it.
C19_Witness ==
  /\ Len(sent) >= 2
  /\ sent[1].kind = "start"
  /\ sent[2].kind = "media"

\* Sessions that are live: acquired microphone plus transport connection.
LiveSessions == orphanLive + (IF CurrentLive THEN 1 ELSE 0)

\* C20: at most one audio session (acquired microphone plus transport
\* connection) is live at any time, across any sequence of mounts, exits and
\* restarts, including an exit while the previous session is initializing.
C20_AtMostOneLiveSession == LiveSessions <= 1

\* ------------------------------------------------------- visualization
\* AudioVisualizer.draw (lines 25-39): with isActive false it paints a flat
\* line and returns, before requestAnimationFrame and before
\* analyser.getByteTimeDomainData; with isActive true it samples the analyser
\* and schedules the next frame.  The effect re-runs draw whenever isActive
\* changes.  TRUE when the visualizer samples its analyser.
DrawSamples(isActive) == isActive

\* The isActive prop of the input visualizer (line 451): isActive={micActive}.
InputTapIsActive == micActive

\* C21: the input visualization keeps sampling capture frames regardless of
\* the mute state: while the session is connected and on screen, the input
\* visualizer samples its analyser.
C21_InputTapSamplesWhateverMute ==
  (mounted /\ connected) => DrawSamples(InputTapIsActive)

\* C22: the playback cursor and the live set are changed only by chunk
\* scheduling (receipt of a message, where line 353 synchronises the cursor,
\* and the scheduling after the decode), by buffer completion and by
\* interruption; a capture frame or a mute toggle leaves both unchanged.
C22_OnlyPlaybackStepsTouchCursorAndLiveSet ==
  [][ /\ (frames' # frames \/ micActive' # micActive \/ micActiveRef' # micActiveRef)
           => (nextStartTimeRef' = nextStartTimeRef /\ sourcesRef' = sourcesRef)
      /\ (nextStartTimeRef' # nextStartTimeRef \/ sourcesRef' # sourcesRef)
           => ( \/ msgCount' = msgCount + 1
                \/ Len(schedLog') = Len(schedLog) + 1
                \/ interrupts' # interrupts
                \/ \E s \in Ids : src[s].st = "scheduled" /\ src'[s].st = "ended" ) ]_vars

\* Frames were captured and the microphone was muted while a buffer is live
\* and the cursor stands beyond zero.
C22_Witness ==
  /\ frames >= 1
  /\ ~micActive
  /\ sourcesRef # {}
  /\ nextStartTimeRef > 0

\* C23: the playback cursor never decreases across chunk-scheduling steps;
\* the only step that lowers it is the processing of an interrupted flag,
\* which resets it to zero.
C23_CursorDecreasesOnlyOnInterrupt ==
  [][ nextStartTimeRef' < nextStartTimeRef
      => (interrupts' # interrupts /\ nextStartTimeRef' = 0) ]_vars

\* The cursor climbed over two schedulings past the clock and an
\* interruption has reset it.
C23_Witness ==
  /\ Len(schedLog) >= 2
  /\ last.start > last.at
  /\ interrupts # {}
  /\ nextStartTimeRef = 0

\* C24: after any sequence of score saves the stored leaderboard holds at
\* most 50 entries and is sorted by score in non-increasing order; a save
\* with an empty or whitespace-only player name leaves it unchanged, so no
\* stored entry has such a name.
C24_LeaderboardCappedSortedNamed ==
  /\ Len(leaderboard) <= LeaderboardCap
  /\ \A i \in 1..Len(leaderboard) - 1 : leaderboard[i].score >= leaderboard[i + 1].score
  /\ \A i \in 1..Len(leaderboard) :
       \E k \in 1..Len(leaderboard[i].name) : leaderboard[i].name[k] \notin WhiteSpace

\* Two games with both answers right were saved in this visit on a
\* leaderboard that earlier visits had left full or one short of full: the
\* list is full, both are at its head, and the second save dropped the last
\* entry.
C24_Witness ==
  /\ Len(leaderboard) = LeaderboardCap
  /\ leaderboard[1].score = 200
  /\ leaderboard[2].score = 200
  /\ leaderboard[LeaderboardCap].score < 200

\* The session is Active: shown as connected, on an open transport, with
\* capture wired.
Active == connected /\ tState = "open" /\ processor = "connected"

\* C25: no timeout: a session that is Active leaves the Active state only in
\* a step that is an explicit exit (unmount), a close event or an error
\* event; a step in which only time passes, with or without inbound messages,
\* leaves it Active.
C25_ActiveEndsOnlyByExitCloseOrError ==
  [][ (Active /\ ~Active')
      => ( \/ (mounted /\ ~mounted')
           \/ (tState # "closed" /\ tState' = "closed")
           \/ (~error /\ error') ) ]_vars

\* The clock has run to its last value, no message has ever come in, and the
\* session is still Active.
C25_Witness ==
  /\ Active
  /\ mounted
  /\ clock = MaxTime
  /\ msgCount = 0

\* The quiz's sources that are playing.
QuizPlaying == {s \in QIds : audio.tbl[s].st = "playing"}

\* C26: in the turn-based quiz at most one audio source is playing at any
\* time: a text-to-speech that resolves after newer audio was started, by
\* playAudio or by playBuffer, does not play alongside it.
C26_AtMostOneQuizSourcePlaying == Cardinality(QuizPlaying) <= 1


\* C27: in the turn-based quiz, while one audio source is playing,
\* currentAudioSourceRef refers to it, so that stopCurrentAudio silences it;
\* the late ended event of an earlier, stopped source does not clear the
\* reference to a newer source.
C27_PlayingSourceIsCurrent ==
  \A s \in QIds : QuizPlaying = {s} => audio.ref = s


\* C28: a message that carries the interrupted flag has cleared the live set
\* and reset the cursor before the chunk of any message received after it is
\* scheduled, also when it carries audio itself, whether that audio decodes
\* at once, slowly, or not at all.
C28_InterruptedActsBeforeLaterChunk ==
  [][ \A m, k \in Ids :
        ( /\ m < k
          /\ src[m].int
          /\ Len(schedLog') = Len(schedLog) + 1
          /\ schedLog'[Len(schedLog')] = k )
        => m \in interrupts ]_vars


\* What has gone on the transport, followed by what waits on the session
\* promise in the order in which it will run.
Outbox == sent \o thenQueue

\* C29: within a session the start turn goes on the transport before the
\* first captured media blob, whether the session promise resolves before or
\* after the open event; while callbacks wait on the promise, the start turn
\* waits ahead of every media blob.
C29_StartTurnBeforeFirstMediaBlob ==
  \A i \in 1..Len(Outbox) :
     Outbox[i].kind = "media" => \E j \in 1..(i - 1) : Outbox[j].kind = "start"

\* Every capture frame of the session has gone out, all behind the start turn.
C29_Witness ==
  /\ frames >= 2
  /\ Len(sent) = frames + 1
  /\ sent[1].kind = "start"
  /\ \A i \in 2..Len(sent) : sent[i].kind = "media"


\* C30: when no further chunks arrive, every buffer of the live set leaves
\* it in the end, by completion or by interruption: the live set becomes
\* empty and stays empty.
C30_LiveSetEmptiesForGood == <>[](sourcesRef = {})


\* The questions answered so far: the ones before the current one, and the
\* current one once isAnswered is set.
QuestionsAnswered == currentIndex + (IF isAnswered THEN 1 ELSE 0)

\* C31: in the turn-based quiz the score is never negative and each question
\* is answered at most once: the score changes only in the step that answers
\* the current, unanswered question, by +100 for a correct answer and by -20
\* floored at 0 for a wrong one; an answered question only gives way to the
\* next one, and is never open for an answer again.  (A new game, mounted
\* after an exit, starts again at the first question with score 0.)
C31_ScoreFlooredAndOneAnswerPerQuestion ==
  [][ /\ score' >= 0
      /\ score' <= 100 * QuestionsAnswered'
      /\ ~(quizPc = "unmounted" /\ quizPc' = "loading")
           => /\ score' # score
                   => /\ ~isAnswered /\ isAnswered'
                      /\ currentIndex' = currentIndex
                      /\ score' = score + 100 \/ score' = Max(0, score - 20)
              /\ (~isAnswered /\ isAnswered')
                   => /\ currentIndex' = currentIndex
                      /\ score' = score + 100 \/ score' = Max(0, score - 20)
              /\ (isAnswered /\ ~isAnswered') => currentIndex' = currentIndex + 1
              /\ currentIndex' # currentIndex => (isAnswered /\ ~isAnswered') ]_vars

\* The first question was answered wrongly at score 0, which stayed 0, and
\* the second one correctly.
C31_Witness ==
  /\ currentIndex = 1
  /\ isAnswered
  /\ score = 100

====
